---- MODULE Spec2Model ----
(***************************************************************************)
(* Model of convert_audio_batch.py: the batch audio converter that scans   *)
(* an input directory, plans one job per (source file, target format) and  *)
(* runs FFmpeg once per job.                                               *)
(*                                                                         *)
(* Text is modelled as a sequence of atoms.  An atom is a separator        *)
(* character (",", " ", ".", "/") or a block of letters/digits ("wav",     *)
(* "MP3", "128k").  A path is a sequence of components, each a text.       *)
(***************************************************************************)
EXTENDS Integers, Sequences, FiniteSets, TLC

VARIABLES
    pc,          \* position of main(): the line the interpreter is about to run
    argv,        \* the command line as given by the user (never changes)
    env,         \* what the host offers: PATH lookup, --ffmpeg target, probe outcome
    args,        \* argparse Namespace (samplerate/channels may be filled by --telephony)
    disk,        \* file system under out_dir: [files, dirs] sets of paths
    disk0,       \* history: the regular files present when the process started
    ffmpeg_bin,  \* result of resolve_ffmpeg
    targets,     \* list of target suffixes built on line 145
    audio_files, \* list of source paths built on line 160
    fi,          \* index into audio_files of the running loop
    ti,          \* index into targets of the running loop
    total_jobs,  \* counter of the planning pass
    done,        \* counter of the execution pass
    planned,     \* history: the <<fi, ti>> pairs the planning pass counted
    attempted,   \* history: the <<fi, ti>> pairs the execution pass reached line 189 for
    first_failed,\* history: the first pair whose subprocess.run raised, or NoJob
    probes,      \* history: number of "ffmpeg -version" invocations
    runs,        \* history: number of conversion invocations of ffmpeg
    clobbered,   \* history: an invocation happened while its destination existed
    advised,     \* the --telephony advisory was printed
    dst,         \* the local dst of the running loop body
    cmd,         \* the last command built by build_ffmpeg_cmd
    exit_code    \* process exit status, None while the process runs

vars == <<pc, argv, env, args, disk, disk0, ffmpeg_bin, targets, audio_files, fi, ti,
          total_jobs, done, planned, attempted, first_failed, probes, runs,
          clobbered, advised, dst, cmd, exit_code>>

(***************************************************************************)
(* Bounds of the explored inputs.                                          *)
(***************************************************************************)
MaxFormatsLen == 3      \* atoms in the --formats text
MaxFiles == 2           \* files present in the input directory

\* Optional values: None is the empty tuple, a given value v is <<v>>
None == << >>
Some(v) == <<v>>
NoJob == <<0, 0>>

(***************************************************************************)
(* Text helpers (str methods used by the program).                         *)
(***************************************************************************)
\* str.lower() on one block of letters
LowerAtom(a) ==
    CASE a = "WAV" -> "wav"
      [] a = "MP3" -> "mp3"
      [] a = "FLAC" -> "flac"
      [] a = "Ogg" -> "ogg"
      [] OTHER -> a

Lower(s) == [k \in DOMAIN s |-> LowerAtom(s[k])]

RECURSIVE LStrip(_, _)
\* str.lstrip(chars) for a one-character set
LStrip(s, c) ==
    IF s # << >> /\ Head(s) = c THEN LStrip(Tail(s), c) ELSE s

RECURSIVE RStrip(_, _)
RStrip(s, c) ==
    IF s # << >> /\ s[Len(s)] = c THEN RStrip(SubSeq(s, 1, Len(s) - 1), c) ELSE s

\* str.strip(): whitespace removed at both ends
Strip(s) == RStrip(LStrip(s, " "), " ")

RECURSIVE Split(_, _)
\* str.split(sep): n separators give n + 1 fields, the empty text gives [""]
Split(s, sep) ==
    IF \E k \in DOMAIN s : s[k] = sep
    THEN LET k == CHOOSE x \in DOMAIN s :
                      s[x] = sep /\ \A y \in 1..(x - 1) : s[y] # sep
         IN  <<SubSeq(s, 1, k - 1)>> \o Split(SubSeq(s, k + 1, Len(s)), sep)
    ELSE <<s>>

\* sequence filter keeping order
RECURSIVE SelectFields(_)
SelectFields(fs) ==
    IF fs = << >> THEN << >>
    ELSE IF Strip(Head(fs)) # << >>
         THEN <<Head(fs)>> \o SelectFields(Tail(fs))
         ELSE SelectFields(Tail(fs))

\* line 145: one target suffix per non-blank field of --formats
TargetOf(fmt) == <<".">> \o LStrip(Lower(Strip(fmt)), ".")

ParseTargets(formats) ==
    LET kept == SelectFields(Split(formats, ","))
    IN  [k \in DOMAIN kept |-> TargetOf(kept[k])]

(***************************************************************************)
(* pathlib helpers.                                                        *)
(***************************************************************************)
\* PurePath.suffix of a file name: from the last "." when it is neither the
\* first nor the last character
Suffix(name) ==
    IF \E k \in DOMAIN name : name[k] = "."
    THEN LET k == CHOOSE x \in DOMAIN name :
                      name[x] = "." /\ \A y \in (x + 1)..Len(name) : name[y] # "."
         IN  IF 1 < k /\ k < Len(name) THEN SubSeq(name, k, Len(name)) ELSE << >>
    ELSE << >>

\* PurePath.with_suffix(ext) on a path with a non-empty name
WithSuffix(p, ext) ==
    LET name == p[Len(p)]
        old  == Suffix(name)
        base == SubSeq(name, 1, Len(name) - Len(old))
    IN  SubSeq(p, 1, Len(p) - 1) \o <<base \o ext>>

\* pathlib "/" with a text: an empty text adds no component
Join(p, part) == IF part = << >> THEN p ELSE p \o <<part>>

Parent(p) == SubSeq(p, 1, Len(p) - 1)

\* every ancestor directory of p down to p itself (mkdir parents=True)
Ancestors(p) == {SubSeq(p, 1, k) : k \in 1..Len(p)}

in_dir == <<<<"in">>>>
out_dir == <<<<"out">>>>

SUPPORTED_INPUTS ==
    { <<".", x>> : x \in {"mp3", "wav", "ogg", "m4a", "aac", "flac", "wma",
                          "aiff", "aif", "opus", "caf"} }

\* lines 169 and 185: dst = out_dir / ext.lstrip(".") / rel.with_suffix(ext)
Dest(rel, ext) == Join(out_dir, LStrip(ext, ".")) \o WithSuffix(rel, ext)

\* with_suffix raises ValueError for the suffix "." (Python before 3.14)
InvalidSuffix(ext) == ext = <<".">>

\* str(path): components joined by "/" under the root
RECURSIVE PathStr(_)
PathStr(p) == IF p = << >> THEN << >> ELSE <<"/">> \o Head(p) \o PathStr(Tail(p))

(***************************************************************************)
(* argparse conversions.                                                   *)
(***************************************************************************)
\* int(text) of argparse type=int, for the texts the model supplies
IntOf(t) ==
    CASE t = <<"0">> -> 0
      [] t = <<"1">> -> 1
      [] t = <<"2">> -> 2
      [] t = <<"8000">> -> 8000
      [] t = <<"08000">> -> 8000
      [] t = <<"44100">> -> 44100
      [] t = <<"-", "1">> -> -1

\* str(int), written without leading zeros
Str(n) ==
    CASE n = 0 -> <<"0">>
      [] n = 1 -> <<"1">>
      [] n = 2 -> <<"2">>
      [] n = 8000 -> <<"8000">>
      [] n = 44100 -> <<"44100">>
      [] n = -1 -> <<"-", "1">>

OptInt(o) == IF o = None THEN None ELSE Some(IntOf(o[1]))

\* lines 120-135: the Namespace argparse returns
parse_args(av) ==
    [formats |-> av.formats, bitrate |-> av.bitrate,
     samplerate |-> OptInt(av.samplerate), channels |-> OptInt(av.channels),
     normalize |-> av.normalize, overwrite |-> av.overwrite,
     dry_run |-> av.dry_run, ffmpeg |-> av.ffmpeg, telephony |-> av.telephony]

\* Python truth value of an optional text / optional int
TruthyText(o) == o # None /\ o[1] # << >>
TruthyInt(o) == o # None /\ o[1] # 0

(***************************************************************************)
(* build_ffmpeg_cmd                                                        *)
(***************************************************************************)
BitrateArgs(a) == IF TruthyText(a.bitrate) THEN << <<"-b:a">>, a.bitrate[1] >> ELSE << >>

\* a build_ffmpeg_cmd whose FLAC branch also passes the bitrate
CodecArgs_FlacBitrate(ext, a) ==
    CASE ext = <<".", "mp3">> -> << <<"-c:a">>, <<"libmp3lame">> >> \o BitrateArgs(a)
      [] ext \in {<<".", "aac">>, <<".", "m4a">>} ->
             << <<"-c:a">>, <<"aac">> >> \o BitrateArgs(a)
      [] ext = <<".", "opus">> -> << <<"-c:a">>, <<"libopus">> >> \o BitrateArgs(a)
      [] ext = <<".", "ogg">> -> << <<"-c:a">>, <<"libvorbis">> >> \o BitrateArgs(a)
      [] ext = <<".", "flac">> -> << <<"-c:a">>, <<"flac">> >> \o BitrateArgs(a)
      [] ext \in {<<".", "wav">>, <<".", "aiff">>, <<".", "aif">>} ->
             << <<"-c:a">>, <<"pcm_s16le">> >>
      [] OTHER -> BitrateArgs(a)

CodecArgs(ext, a) ==
    CASE ext = <<".", "mp3">> -> << <<"-c:a">>, <<"libmp3lame">> >> \o BitrateArgs(a)
      [] ext \in {<<".", "aac">>, <<".", "m4a">>} ->
             << <<"-c:a">>, <<"aac">> >> \o BitrateArgs(a)
      [] ext = <<".", "opus">> -> << <<"-c:a">>, <<"libopus">> >> \o BitrateArgs(a)
      [] ext = <<".", "ogg">> -> << <<"-c:a">>, <<"libvorbis">> >> \o BitrateArgs(a)
      [] ext = <<".", "flac">> -> << <<"-c:a">>, <<"flac">> >>
      [] ext \in {<<".", "wav">>, <<".", "aiff">>, <<".", "aif">>} ->
             << <<"-c:a">>, <<"pcm_s16le">> >>
      [] OTHER -> BitrateArgs(a)

RateArgs(a) ==
    (IF TruthyInt(a.samplerate) THEN << <<"-ar">>, Str(a.samplerate[1]) >> ELSE << >>)
    \o (IF TruthyInt(a.channels) THEN << <<"-ac">>, Str(a.channels[1]) >> ELSE << >>)

build_ffmpeg_cmd(bin, src, d, a) ==
    LET afilters == IF a.normalize
                    THEN << <<"loudnorm=I=-16:LRA=11:TP=-1.5:linear=true">> >>
                    ELSE << >>
        ext == Lower(Suffix(d[Len(d)]))
    IN  <<bin, <<"-hide_banner">>, <<"-loglevel">>, <<"error">>,
          IF a.overwrite THEN <<"-y">> ELSE <<"-n">>, <<"-i">>, PathStr(src)>>
        \o (IF afilters # << >> THEN << <<"-af">>, afilters[1] >> ELSE << >>)
        \o CodecArgs(ext, a)
        \o RateArgs(a)
        \o <<PathStr(d)>>

(***************************************************************************)
(* resolve_ffmpeg                                                          *)
(***************************************************************************)
\* the path returned, or None when the function ends in sys.exit
resolve_ffmpeg(ffmpeg_arg, e) ==
    IF TruthyText(ffmpeg_arg)
    THEN CASE e.at_arg = "file" -> Some(ffmpeg_arg[1])
           [] e.at_arg = "dir" -> Some(ffmpeg_arg[1] \o <<"/", "ffmpeg">>)
           [] OTHER -> None
    ELSE IF e.which THEN Some(<<"/", "usr", "/", "bin", "/", "ffmpeg">>) ELSE None

(***************************************************************************)
(* The explored inputs.                                                    *)
(***************************************************************************)
\* all texts of at most n atoms over the alphabet A
Texts(A, n) == UNION {[1..k -> A] : k \in 0..n}

FormatAtoms == {",", " ", ".", "wav", "MP3"}

\* the files the input directory may hold, in the order rglob yields them
FileOrder ==
    << << <<"a", ".", "mp3">> >>,
       << <<"a", ".", "wav">> >>,
       << <<"b">>, <<"c", ".", "MP3">> >>,
       << <<"n", ".", "txt">> >> >>

\* destinations that may exist before the run starts
PreExisting == { out_dir \o << <<"wav">>, <<"a", ".", "wav">> >> }

NoDisk == [files |-> {}, dirs |-> {}]

Fresh ==
    /\ pc = "start"
    /\ disk0 = disk.files
    /\ args = parse_args(argv)
    /\ ffmpeg_bin = None
    /\ targets = << >>
    /\ audio_files = << >>
    /\ fi = 0
    /\ ti = 0
    /\ total_jobs = 0
    /\ done = 0
    /\ planned = {}
    /\ attempted = {}
    /\ first_failed = NoJob
    /\ probes = 0
    /\ runs = 0
    /\ clobbered = FALSE
    /\ advised = FALSE
    /\ dst = << >>
    /\ cmd = << >>
    /\ exit_code = None

\* a healthy FFmpeg on PATH, any --formats text, any small input directory
InitRun ==
    /\ \E f \in Texts(FormatAtoms, MaxFormatsLen), ow \in BOOLEAN, dr \in BOOLEAN :
          argv = [formats |-> f, bitrate |-> None, samplerate |-> None,
                  channels |-> None, normalize |-> FALSE, overwrite |-> ow,
                  dry_run |-> dr, ffmpeg |-> None, telephony |-> FALSE]
    /\ \E inp \in SUBSET (1..Len(FileOrder)) :
          /\ Cardinality(inp) <= MaxFiles
          /\ env = [which |-> TRUE, at_arg |-> "none", probe |-> "ok", inputs |-> inp]
    /\ \E pre \in SUBSET PreExisting :
          disk = [files |-> pre, dirs |-> UNION {Ancestors(Parent(d)) : d \in pre}]
    /\ Fresh

\* every way of locating and probing FFmpeg
InitEnv ==
    /\ \E dr \in BOOLEAN,
          ff \in {None, Some(<< >>), Some(<<"/", "opt", "/", "ff">>)} :
          argv = [formats |-> <<"wav">>, bitrate |-> None, samplerate |-> None,
                  channels |-> None, normalize |-> FALSE, overwrite |-> FALSE,
                  dry_run |-> dr, ffmpeg |-> ff, telephony |-> FALSE]
    /\ \E w \in BOOLEAN, at \in {"file", "dir", "none"},
          pr \in {"ok", "notfound", "nonzero"} :
          env = [which |-> w, at_arg |-> at, probe |-> pr, inputs |-> {1}]
    /\ disk = NoDisk
    /\ Fresh

\* every combination of --telephony, --samplerate and --channels
InitTelephony ==
    /\ \E tel \in BOOLEAN, dr \in BOOLEAN,
          f \in {<<"wav">>, <<"MP3">>, <<"MP3", ",", "wav">>},
          sr \in {None, Some(<<"0">>), Some(<<"8000">>), Some(<<"08000">>),
                  Some(<<"44100">>)},
          ch \in {None, Some(<<"1">>), Some(<<"2">>)},
          br \in {None, Some(<<"128k">>)} :
          argv = [formats |-> f, bitrate |-> br, samplerate |-> sr,
                  channels |-> ch, normalize |-> FALSE, overwrite |-> TRUE,
                  dry_run |-> dr, ffmpeg |-> None, telephony |-> tel]
    /\ \E inp \in {{}, {1}} :
          env = [which |-> TRUE, at_arg |-> "none", probe |-> "ok", inputs |-> inp]
    /\ disk = NoDisk
    /\ Fresh

Init == InitRun \/ InitEnv \/ InitTelephony

(***************************************************************************)
(* main()                                                                  *)
(***************************************************************************)
Exit(code) == /\ pc' = "exited"
              /\ exit_code' = Some(code)

\* line 137: resolve_ffmpeg; sys.exit(message) ends the process with status 1
Resolve ==
    /\ pc = "start"
    /\ LET r == resolve_ffmpeg(args.ffmpeg, env)
       IN  IF r = None
           THEN Exit(1) /\ UNCHANGED ffmpeg_bin
           ELSE /\ ffmpeg_bin' = r[1]
                /\ pc' = "probe"
                /\ UNCHANGED exit_code
    /\ UNCHANGED <<argv, env, disk0, args, disk, targets, audio_files, fi, ti, total_jobs,
                   done, planned, attempted, first_failed, probes, runs, clobbered,
                   advised, dst, cmd>>

\* line 138: check_ffmpeg_available runs [ffmpeg_bin, "-version"]
check_ffmpeg_available ==
    /\ pc = "probe"
    /\ probes' = probes + 1
    /\ cmd' = <<ffmpeg_bin, <<"-version">> >>
    /\ IF env.probe = "ok"
       THEN pc' = "formats" /\ UNCHANGED exit_code
       ELSE Exit(1)
    /\ UNCHANGED <<argv, env, disk0, args, disk, ffmpeg_bin, targets, audio_files, fi, ti,
                   total_jobs, done, planned, attempted, first_failed, runs,
                   clobbered, advised, dst>>

\* lines 140-148: create the output root, parse --formats
PrepareTargets ==
    /\ pc = "formats"
    /\ disk' = [disk EXCEPT !.dirs = @ \cup Ancestors(out_dir)]
    /\ targets' = ParseTargets(args.formats)
    /\ IF targets' = << >>
       THEN Exit(0)
       ELSE pc' = "telephony" /\ UNCHANGED exit_code
    /\ UNCHANGED <<argv, env, disk0, args, ffmpeg_bin, audio_files, fi, ti, total_jobs,
                   done, planned, attempted, first_failed, probes, runs, clobbered,
                   advised, dst, cmd>>

\* a preset that overrides what the user gave
TelephonyPreset_Override(a) ==
    IF a.telephony
    THEN [a EXCEPT !.samplerate = Some(8000), !.channels = Some(1)]
    ELSE a

\* lines 151-157
TelephonyPreset(a) ==
    IF a.telephony
    THEN [a EXCEPT !.samplerate = IF @ = None THEN Some(8000) ELSE @,
                   !.channels = IF @ = None THEN Some(1) ELSE @]
    ELSE a

\* line 160: the regular files under in_dir with a supported suffix
RECURSIVE ScanFrom(_, _)
ScanFrom(k, inputs) ==
    IF k > Len(FileOrder) THEN << >>
    ELSE LET p == FileOrder[k]
         IN  (IF k \in inputs /\ Lower(Suffix(p[Len(p)])) \in SUPPORTED_INPUTS
              THEN <<p>> ELSE << >>) \o ScanFrom(k + 1, inputs)

\* lines 150-165: telephony preset, scan of the input directory
Scan ==
    /\ pc = "telephony"
    /\ advised' = (args.telephony /\ \A k \in DOMAIN targets : targets[k] # <<".", "wav">>)
    /\ args' = TelephonyPreset(args)
    /\ audio_files' = ScanFrom(1, env.inputs)
    /\ IF audio_files' = << >>
       THEN Exit(0) /\ UNCHANGED <<fi, ti>>
       ELSE /\ pc' = "plan"
            /\ fi' = 1
            /\ ti' = 1
            /\ UNCHANGED exit_code
    /\ UNCHANGED <<argv, env, disk0, disk, ffmpeg_bin, targets, total_jobs, done, planned,
                   attempted, first_failed, probes, runs, clobbered, dst, cmd>>

Exists(d) == d \in disk.files \cup disk.dirs

\* the nested for loops: next (file, target) pair, or the end of the pass
Advance(after) ==
    IF ti < Len(targets)
    THEN /\ ti' = ti + 1
         /\ UNCHANGED <<fi, pc>>
    ELSE IF fi < Len(audio_files)
         THEN /\ fi' = fi + 1
              /\ ti' = 1
              /\ UNCHANGED pc
         ELSE /\ pc' = after
              /\ UNCHANGED <<fi, ti>>

\* lines 171-173: whether the planning pass counts the pair
PlanCounts(d) == ~(Exists(d) /\ ~args.overwrite)

\* lines 166-173: one iteration of the planning pass (for the suffix "." this
\* is the Python 3.14 outcome, where with_suffix accepts it; see PlanRaise)
PlanStep ==
    /\ pc = "plan"
    /\ LET d == Dest(audio_files[fi], targets[ti])
       IN  /\ dst' = d
           /\ disk' = [disk EXCEPT !.dirs = @ \cup Ancestors(Parent(d))]
           /\ IF PlanCounts(d)
              THEN /\ total_jobs' = total_jobs + 1
                   /\ planned' = planned \cup {<<fi, ti>>}
              ELSE UNCHANGED <<total_jobs, planned>>
    /\ Advance("plan_end")
    /\ UNCHANGED <<argv, env, disk0, args, ffmpeg_bin, targets, audio_files, done, attempted,
                   first_failed, probes, runs, clobbered, advised, cmd, exit_code>>

\* line 169 on Python before 3.14: with_suffix(".") raises ValueError, which
\* nothing catches; the interpreter ends with status 1
PlanRaise ==
    /\ pc = "plan"
    /\ InvalidSuffix(targets[ti])
    /\ Exit(1)
    /\ UNCHANGED <<argv, env, disk0, args, disk, ffmpeg_bin, targets, audio_files, fi, ti,
                   total_jobs, done, planned, attempted, first_failed, probes, runs,
                   clobbered, advised, dst, cmd>>

\* lines 175-181
PlanEnd ==
    /\ pc = "plan_end"
    /\ IF total_jobs = 0
       THEN Exit(0) /\ UNCHANGED <<fi, ti>>
       ELSE /\ pc' = "exec"
            /\ fi' = 1
            /\ ti' = 1
            /\ UNCHANGED exit_code
    /\ done' = 0
    /\ UNCHANGED <<argv, env, disk0, args, disk, ffmpeg_bin, targets, audio_files,
                   total_jobs, planned, attempted, first_failed, probes, runs,
                   clobbered, advised, dst, cmd>>

\* an execution pass that trusts the planning pass and checks nothing
ExecSkips_Never(d) == FALSE

\* lines 186-187: whether the execution pass skips the pair
ExecSkips(d) == Exists(d) /\ ~args.overwrite

\* lines 185-187: the destination exists and --overwrite is not set
ExecSkip ==
    /\ pc = "exec"
    /\ LET d == Dest(audio_files[fi], targets[ti])
       IN  /\ ExecSkips(d)
           /\ dst' = d
    /\ Advance("finish")
    /\ UNCHANGED <<argv, env, disk0, args, disk, ffmpeg_bin, targets, audio_files, total_jobs,
                   done, planned, attempted, first_failed, probes, runs, clobbered,
                   advised, cmd, exit_code>>

\* what one FFmpeg conversion can end in: exit 0 with the destination written;
\* nonzero exit (CalledProcessError) with or without a partial destination left;
\* the process cannot be launched (OSError)
Outcomes == {"ok", "nonzero_partial", "nonzero_clean", "oserror"}

\* a loop body that forgets the dry_run test and runs FFmpeg
ExecDryRun_Runs ==
    /\ pc = "exec"
    /\ args.dry_run
    /\ LET d == Dest(audio_files[fi], targets[ti])
       IN  /\ ~ExecSkips(d)
           /\ dst' = d
           /\ cmd' = build_ffmpeg_cmd(ffmpeg_bin, in_dir \o audio_files[fi], d, args)
           /\ disk' = [disk EXCEPT !.files = @ \cup {d}]
    /\ runs' = runs + 1
    /\ attempted' = attempted \cup {<<fi, ti>>}
    /\ done' = done + 1
    /\ Advance("finish")
    /\ UNCHANGED <<argv, env, disk0, args, ffmpeg_bin, targets, audio_files, total_jobs,
                   planned, first_failed, probes, clobbered, advised, exit_code>>

\* lines 189-193 and 211: --dry-run prints the command
ExecDryRun ==
    /\ pc = "exec"
    /\ args.dry_run
    /\ LET d == Dest(audio_files[fi], targets[ti])
       IN  /\ ~ExecSkips(d)
           /\ dst' = d
           /\ cmd' = build_ffmpeg_cmd(ffmpeg_bin, in_dir \o audio_files[fi], d, args)
    /\ attempted' = attempted \cup {<<fi, ti>>}
    /\ done' = done + 1
    /\ Advance("finish")
    /\ UNCHANGED <<argv, env, disk0, args, disk, ffmpeg_bin, targets, audio_files, total_jobs,
                   planned, first_failed, probes, runs, clobbered, advised, exit_code>>

\* lines 189-211: run FFmpeg; both except clauses only print
ExecRun ==
    /\ pc = "exec"
    /\ ~args.dry_run
    /\ \E o \in Outcomes :
          LET d == Dest(audio_files[fi], targets[ti])
          IN  /\ ~ExecSkips(d)
              /\ dst' = d
              /\ cmd' = build_ffmpeg_cmd(ffmpeg_bin, in_dir \o audio_files[fi], d, args)
              /\ runs' = runs + 1
              /\ clobbered' = (clobbered \/ Exists(d))
              /\ disk' = IF o \in {"ok", "nonzero_partial"}
                         THEN [disk EXCEPT !.files = @ \cup {d}]
                         ELSE disk
              /\ first_failed' = IF o # "ok" /\ first_failed = NoJob
                                 THEN <<fi, ti>> ELSE first_failed
    /\ attempted' = attempted \cup {<<fi, ti>>}
    /\ done' = done + 1
    /\ Advance("finish")
    /\ UNCHANGED <<argv, env, disk0, args, ffmpeg_bin, targets, audio_files, total_jobs,
                   planned, probes, advised, exit_code>>

\* line 213 prints "Proceso finalizado.", then main returns: status 0
Finish ==
    /\ pc = "finish"
    /\ pc' = "end"
    /\ exit_code' = Some(0)
    /\ UNCHANGED <<argv, env, disk0, args, disk, ffmpeg_bin, targets, audio_files, fi, ti,
                   total_jobs, done, planned, attempted, first_failed, probes, runs,
                   clobbered, advised, dst, cmd>>

Next ==
    \/ Resolve
    \/ check_ffmpeg_available
    \/ PrepareTargets
    \/ Scan
    \/ PlanStep
    \/ PlanRaise
    \/ PlanEnd
    \/ ExecSkip
    \/ ExecDryRun
    \/ ExecRun
    \/ Finish

Spec == Init /\ [][Next]_vars

(***************************************************************************)
(* build_ffmpeg_cmd on its own: every destination suffix, every option.    *)
(***************************************************************************)
BuildSuffixes ==
    {"mp3", "aac", "m4a", "opus", "ogg", "flac", "wav", "aiff", "aif", "wma",
     "MP3", "WAV", "FLAC", "Ogg"}

InitBuild ==
    /\ \E br \in {None, Some(<< >>), Some(<<"128k">>)},
          sr \in {None, Some(<<"0">>), Some(<<"8000">>), Some(<<"08000">>),
                  Some(<<"44100">>), Some(<<"-", "1">>)},
          ch \in {None, Some(<<"1">>), Some(<<"2">>)},
          nz \in BOOLEAN, ow \in BOOLEAN, tel \in BOOLEAN :
          argv = [formats |-> <<"wav">>, bitrate |-> br, samplerate |-> sr,
                  channels |-> ch, normalize |-> nz, overwrite |-> ow,
                  dry_run |-> FALSE, ffmpeg |-> None, telephony |-> tel]
    /\ args = TelephonyPreset(parse_args(argv))
    /\ \E x \in BuildSuffixes :
          dst = out_dir \o << <<LowerAtom(x)>>, <<"a", ".", x>> >>
    /\ pc = "build"
    /\ env = [which |-> TRUE, at_arg |-> "none", probe |-> "ok", inputs |-> {1}]
    /\ disk = NoDisk
    /\ disk0 = {}
    /\ ffmpeg_bin = <<"/", "usr", "/", "bin", "/", "ffmpeg">>
    /\ targets = << >>
    /\ audio_files = <<FileOrder[1]>>
    /\ fi = 1
    /\ ti = 1
    /\ total_jobs = 0
    /\ done = 0
    /\ planned = {}
    /\ attempted = {}
    /\ first_failed = NoJob
    /\ probes = 0
    /\ runs = 0
    /\ clobbered = FALSE
    /\ advised = FALSE
    /\ cmd = << >>
    /\ exit_code = None

\* one call of build_ffmpeg_cmd(ffmpeg_bin, src, dst, args)
BuildCall ==
    /\ pc = "build"
    /\ cmd' = build_ffmpeg_cmd(ffmpeg_bin, in_dir \o audio_files[fi], dst, args)
    /\ pc' = "built"
    /\ UNCHANGED <<argv, env, disk0, args, disk, ffmpeg_bin, targets, audio_files, fi,
                   ti, total_jobs, done, planned, attempted, first_failed, probes,
                   runs, clobbered, advised, dst, exit_code>>

NextBuild == BuildCall

SpecBuild == InitBuild /\ [][NextBuild]_vars

(***************************************************************************)
(* Properties.                                                             *)
(***************************************************************************)
Terminated == pc \in {"exited", "end"}

PairSource(p) == audio_files[p[1]]
PairTarget(p) == targets[p[2]]
PairDest(p) == Dest(PairSource(p), PairTarget(p))
AllPairs == (DOMAIN audio_files) \X (DOMAIN targets)

\* p comes before q in the nested loops
Before(p, q) == p[1] < q[1] \/ (p[1] = q[1] /\ p[2] < q[2])

\* the format list names only ordinary formats (no ".", no inner blank or dot)
PlainTargets == \A k \in DOMAIN targets : targets[k] \in {<<".", "wav">>, <<".", "mp3">>}

\* C1: any two planned jobs with distinct (source file, target format) have
\* distinct destination paths (stated for ordinary format names, where it
\* already fails).
C1_DistinctDestinations ==
    PlainTargets =>
        \A p \in planned : \A q \in planned :
            (PairSource(p) # PairSource(q) \/ PairTarget(p) # PairTarget(q))
                => PairDest(p) # PairDest(q)

\* C2: when --formats yields no target the process ends with a nonzero status
\* and no conversion was attempted.
C2_EmptyFormatsFatal ==
    (Terminated /\ ParseTargets(argv.formats) = << >>)
        => (exit_code # Some(0) /\ runs = 0 /\ attempted = {})

C4_DoneEqualsTotal ==
    (pc = "end" /\ PlainTargets) => done = total_jobs

\* C5: after a job fails, every planned job that follows it is still
\* attempted, the batch reaches its end and the exit status is zero (stated
\* for ordinary format names and an empty output tree, where it already fails).
C5_FailureContained ==
    (Terminated /\ first_failed # NoJob /\ PlainTargets /\ disk0 = {}) =>
        /\ pc = "end"
        /\ exit_code = Some(0)
        /\ \A p \in planned : Before(first_failed, p) => p \in attempted

\* C6: without --overwrite the executable is never invoked while its
\* destination exists; a pair whose destination existed before the run is
\* neither planned nor attempted, and the pre-existing files stay in place.
C6_NoOverwriteNoClobber ==
    ~argv.overwrite =>
        /\ ~clobbered
        /\ \A p \in planned \cup attempted : PairDest(p) \notin disk0
        /\ disk0 \subseteq disk.files

C6_Witness ==
    /\ ~argv.overwrite
    /\ pc = "end"
    /\ runs > 0
    /\ \E p \in AllPairs : PairDest(p) \in disk0 /\ p \notin planned \cup attempted

\* C7: with --overwrite and no destination present beforehand the planning
\* pass counts |S| x |F| jobs, S the discovered files, F the set of formats
\* the --formats text denotes (stated for ordinary format names, where it
\* already fails).
C7_JobsEqualProduct ==
    (pc = "plan_end" /\ argv.overwrite /\ disk0 = {} /\ PlainTargets) =>
        total_jobs = Len(audio_files) * Cardinality({targets[k] : k \in DOMAIN targets})

LossyExts == { <<".", x>> : x \in {"mp3", "aac", "m4a", "opus", "ogg"} }
LosslessExts == { <<".", x>> : x \in {"flac", "wav", "aiff", "aif"} }

\* the destination suffix, case folded
DstExt == Lower(Suffix(dst[Len(dst)]))

HasOpt(c, o) == \E k \in DOMAIN c : c[k] = <<o>>

\* option o is followed by value v, both before the last element
OptWith(c, o, v) == \E k \in 1..(Len(c) - 2) : c[k] = <<o>> /\ c[k + 1] = v

\* C8 as stated: for a lossy destination the command has -b:a exactly when a
\* bitrate was supplied; for a lossless one it never has.
C8_BitrateIffSupplied ==
    pc = "built" =>
        /\ DstExt \in LossyExts => (HasOpt(cmd, "-b:a") <=> args.bitrate # None)
        /\ DstExt \in LosslessExts => ~HasOpt(cmd, "-b:a")

\* C8 amended: for a lossy destination the command has -b:a (followed by the
\* bitrate text) exactly when a non-empty bitrate was supplied; for a
\* lossless one it never has.
C8_BitrateIffNonEmpty ==
    pc = "built" =>
        /\ DstExt \in LossyExts =>
              /\ HasOpt(cmd, "-b:a") <=> (args.bitrate # None /\ args.bitrate[1] # << >>)
              /\ HasOpt(cmd, "-b:a") => OptWith(cmd, "-b:a", args.bitrate[1])
        /\ DstExt \in LosslessExts => ~HasOpt(cmd, "-b:a")

C8_Witness ==
    /\ pc = "built"
    /\ dst[Len(dst)] = <<"a", ".", "FLAC">>
    /\ args.bitrate = Some(<<"128k">>)
    /\ ~HasOpt(cmd, "-b:a")

\* C9: with --telephony the sample rate is 8000 and the channel count 1 where
\* the user gave none, a value the user gave is kept, and after the missing-wav
\* advisory every (file, format) pair is still planned.
C9_TelephonyKeepsExplicit ==
    (argv.telephony /\ targets # << >> /\ pc # "telephony") =>
        /\ args.samplerate = IF argv.samplerate = None THEN Some(8000)
                             ELSE Some(IntOf(argv.samplerate[1]))
        /\ args.channels = IF argv.channels = None THEN Some(1)
                           ELSE Some(IntOf(argv.channels[1]))
        /\ advised = (\A k \in DOMAIN targets : targets[k] # <<".", "wav">>)
        /\ (advised /\ env.inputs # {} /\ Terminated /\ argv.overwrite)
              => (planned = AllPairs /\ planned # {})

C9_Witness ==
    /\ argv.telephony
    /\ advised
    /\ pc = "end"
    /\ planned # {}
    /\ argv.samplerate = Some(<<"44100">>)
    /\ args.samplerate = Some(44100)
    /\ argv.channels = None
    /\ args.channels = Some(1)

\* C10: for every destination suffix, a set sample rate appears as -ar with
\* that integer and a set channel count as -ac with that integer, both before
\* the destination path, which is the last element.
C10_RateAndChannelsPassed ==
    pc = "built" =>
        /\ args.samplerate # None => OptWith(cmd, "-ar", Str(args.samplerate[1]))
        /\ args.channels # None => OptWith(cmd, "-ac", Str(args.channels[1]))
        /\ cmd[Len(cmd)] = PathStr(dst)

====
